---- MODULE Spec2Model ----
(***************************************************************************)
(* A model of price.py: the field extractor (_extract_price), the two site *)
(* parsers, the aggregator (search_products), the ranking of               *)
(* display_results, the price-history store (DatabaseManager) and the menu *)
(* loop of main.                                                           *)
(*                                                                         *)
(* Text is a sequence of one-character strings.  Optional values are       *)
(* sequences of length at most one: None is <<>> and a value v is <<v>>.   *)
(* A float is kept as an exact decimal, an integer count of 10^-FracDigits *)
(* units; binary rounding is not modelled.                                 *)
(***************************************************************************)
EXTENDS Integers, Sequences, FiniteSets, TLC

VARIABLES
    price_text,   \* _extract_price: the argument
    price_out,    \* _extract_price: what the call did (NotCalled, or its outcome)
    site_name,    \* the parser under call: "amazon" or "ebay"
    soup,         \* the parser's document: None, or Some(its item elements)
    scraped,      \* what the parser call did (NotCalled, or its outcome)
    query,        \* search_products: the query
    web,          \* what each site answers to this search's GET
    products,     \* what search_products did (NotCalled, or its outcome)
    listing,      \* what display_results put on the terminal (NotCalled before)
    rows,         \* the products table, in rowid order
    store_call,   \* the last call of the DatabaseManager: op, arg, out
    main_pc,      \* main: "start", "menu", "pause", "exited", "interrupted", "crashed"
    screen,       \* main: the last message on the terminal
    clock,        \* main: the reading of datetime.now()
    searches,     \* main: the searches made so far
    failure       \* main: the storage operation that failed in the last step

\* ------------------------------------------------------------------ bounds

\* Longest enumerated price text.
MaxTextLen == 3

\* Most item elements of a document handed to a parser.
MaxItems == 2

\* Most item elements of a site's answer to a search.
MaxSearchItems == 2

\* Most item elements of a site's answer to a search made from the menu.
MaxMenuItems == 1

\* Most searches made from the menu.
MaxMenuSearches == 2

\* Largest rowid the store hands out.
MaxRowId == 2

\* The clock's reading when a parser, a search or the menu starts.
StartTime == 1

\* ------------------------------------------------------------ Python values

None == <<>>

Some(v) == <<v>>

NotCalled == [kind |-> "not_called"]

Returned(v) == [kind |-> "return", value |-> v]

Raised(e) == [kind |-> "raise", exc |-> e]

\* Fraction digits kept by the decimal representation of a float.
FracDigits == MaxTextLen

RECURSIVE Pow10(_)
Pow10(n) == IF n = 0 THEN 1 ELSE 10 * Pow10(n - 1)

AsciiDigits == {"0", "1", "2", "3", "4", "5", "6", "7", "8", "9"}

\* Characters for which str.isdigit() is true: the ASCII digits and, among
\* the characters of the model, SUPERSCRIPT TWO (written "sup2"), which
\* float() does not accept.
IsDigit(c) == c \in AsciiDigits \/ c = "sup2"

DigitVal(c) ==
    CASE c = "0" -> 0 [] c = "1" -> 1 [] c = "2" -> 2 [] c = "3" -> 3
      [] c = "4" -> 4 [] c = "5" -> 5 [] c = "6" -> 6 [] c = "7" -> 7
      [] c = "8" -> 8 [] c = "9" -> 9

RECURSIVE DigitsVal(_)
DigitsVal(s) ==
    IF s = <<>> THEN 0
    ELSE 10 * DigitsVal(SubSeq(s, 1, Len(s) - 1)) + DigitVal(s[Len(s)])

IsAsciiDigits(s) == \A i \in 1..Len(s) : s[i] \in AsciiDigits

DotsAt(s) == {i \in 1..Len(s) : s[i] = "."}

\* float() of an unsigned literal: digits with at most one ".", at least one
\* digit.  The value is Returned(units), or Raised("ValueError").  No text of
\* the model has more than FracDigits digits after the point.
UnsignedFloat(s) ==
    LET dots == DotsAt(s)
        d    == IF dots = {} THEN Len(s) + 1 ELSE CHOOSE i \in dots : TRUE
        ip   == SubSeq(s, 1, d - 1)
        fp   == SubSeq(s, d + 1, Len(s))
    IN  IF /\ Cardinality(dots) <= 1
           /\ IsAsciiDigits(ip) /\ IsAsciiDigits(fp)
           /\ Len(ip) + Len(fp) >= 1
        THEN Returned(DigitsVal(ip) * Pow10(FracDigits)
                        + DigitsVal(fp) * Pow10(FracDigits - Len(fp)))
        ELSE Raised("ValueError")

\* float(text) for text without surrounding whitespace, exponent, "inf" or
\* "nan": an optional sign, then an unsigned literal.
PyFloat(s) ==
    IF s # <<>> /\ s[1] \in {"-", "+"}
    THEN LET u == UnsignedFloat(Tail(s))
         IN  IF u.kind = "return" /\ s[1] = "-" THEN Returned(0 - u.value) ELSE u
    ELSE UnsignedFloat(s)

\* --------------------------------------------------------- Field extractor

PriceCharKept(c) == IsDigit(c) \/ c = "." \/ c = ","

\* Faulty variant of KeepPriceChars: the sign is kept as well.
RECURSIVE KeepPriceCharsSigned(_)
KeepPriceCharsSigned(s) ==
    IF s = <<>> THEN <<>>
    ELSE (IF PriceCharKept(Head(s)) \/ Head(s) = "-" THEN <<Head(s)>> ELSE <<>>)
            \o KeepPriceCharsSigned(Tail(s))

\* ''.join(c for c in price_text if c.isdigit() or c == '.' or c == ',')
RECURSIVE KeepPriceChars(_)
KeepPriceChars(s) ==
    IF s = <<>> THEN <<>>
    ELSE (IF PriceCharKept(Head(s)) THEN <<Head(s)>> ELSE <<>>)
            \o KeepPriceChars(Tail(s))

\* text.replace(c, '')
RECURSIVE RemoveChar(_, _)
RemoveChar(s, c) ==
    IF s = <<>> THEN <<>>
    ELSE (IF Head(s) = c THEN <<>> ELSE <<Head(s)>>) \o RemoveChar(Tail(s), c)

\* WebScraper._extract_price: Returned(None), Returned(Some(units)); an
\* exception other than ValueError or AttributeError would leave it (Raised).
ExtractPrice(text) ==
    IF text = <<>> THEN Returned(None)
    ELSE LET cleaned  == KeepPriceChars(text)
             stripped == RemoveChar(cleaned, ",")
             f        == PyFloat(stripped)
         IN  IF f.kind = "return" THEN Returned(Some(f.value))
             ELSE IF f.exc \in {"ValueError", "AttributeError"} THEN Returned(None)
             ELSE f

\* ------------------------------------------------------------- price texts

PriceChars == {"$", "N", "-", "0", "1", ".", ",", "sup2"}

RECURSIVE TextsUpTo(_, _)
TextsUpTo(chars, n) ==
    IF n = 0 THEN {<<>>}
    ELSE LET shorter == TextsUpTo(chars, n - 1)
         IN  shorter \cup {Append(t, c) : t \in shorter, c \in chars}

CanonicalPrice == <<"$", "1", ",", "2", "3", "4", ".", "5", "6">>

NotAvailable == <<"N", "/", "A">>

TwoPoints == <<"1", ".", "2", ".", "3">>

ZeroPrice == <<"$", "0", ".", "0", "0">>

PriceTexts ==
    TextsUpTo(PriceChars, MaxTextLen)
        \cup {CanonicalPrice, NotAvailable, TwoPoints, ZeroPrice}

\* ------------------------------------------------------------ str methods

IsSpace(c) == c \in {" ", "\n", "\t"}

\* str.strip()
RECURSIVE LStrip(_)
LStrip(s) == IF s # <<>> /\ IsSpace(Head(s)) THEN LStrip(Tail(s)) ELSE s

RECURSIVE RStrip(_)
RStrip(s) ==
    IF s # <<>> /\ IsSpace(s[Len(s)]) THEN RStrip(SubSeq(s, 1, Len(s) - 1)) ELSE s

Strip(s) == RStrip(LStrip(s))

UpperLetters == <<"A", "B", "C", "D", "E", "F", "G", "H", "I", "J", "K", "L", "M",
                  "N", "O", "P", "Q", "R", "S", "T", "U", "V", "W", "X", "Y", "Z">>

LowerLetters == <<"a", "b", "c", "d", "e", "f", "g", "h", "i", "j", "k", "l", "m",
                  "n", "o", "p", "q", "r", "s", "t", "u", "v", "w", "x", "y", "z">>

LowerChar(c) ==
    IF \E i \in 1..26 : UpperLetters[i] = c
    THEN LowerLetters[CHOOSE i \in 1..26 : UpperLetters[i] = c]
    ELSE c

\* str.lower(), on ASCII text
Lower(s) == [i \in 1..Len(s) |-> LowerChar(s[i])]

\* The first whitespace-delimited token of s without its leading whitespace.
RECURSIVE TakeToken(_)
TakeToken(s) ==
    IF s = <<>> \/ IsSpace(Head(s)) THEN <<>> ELSE <<Head(s)>> \o TakeToken(Tail(s))

\* text.split()[0]: Raised("IndexError") when the text holds no token.
SplitFirst(s) ==
    LET t == LStrip(s)
    IN  IF t = <<>> THEN Raised("IndexError") ELSE Returned(TakeToken(t))

\* int(text): surrounding whitespace, an optional sign, ASCII digits.
PyInt(s) ==
    LET t    == Strip(s)
        neg  == t # <<>> /\ t[1] = "-"
        body == IF t # <<>> /\ t[1] \in {"-", "+"} THEN Tail(t) ELSE t
    IN  IF body # <<>> /\ IsAsciiDigits(body)
        THEN Returned(IF neg THEN 0 - DigitsVal(body) ELSE DigitsVal(body))
        ELSE Raised("ValueError")

\* ------------------------------------------------------------------ Product

\* Product.__post_init__: float(price) of a price that is not None.  Every
\* price the parsers pass is already a float, so the conversion keeps it.
PostInitPrice(price) == price

\* The Product dataclass, with its defaults for the fields a site leaves out.
Product(name, price, website, url, timestamp, rating, num_reviews, availability) ==
    [name |-> name, price |-> PostInitPrice(price), website |-> website,
     url |-> url, timestamp |-> timestamp, description |-> <<>>,
     rating |-> rating, num_reviews |-> num_reviews,
     availability |-> availability]

\* -------------------------------------------------------------- Site parsers
\* An item element is a record of what select_one finds in it: the text of
\* an element (None when the element is absent) and, for the link, its
\* attributes (None: no element; Some(None): an element without href;
\* Some(Some(h)): href h).  A URL is a sequence of text pieces.

AmazonOrigin == <<"https://www.amazon.com">>

Skipped == [kind |-> "skip"]

Failed(e) == [kind |-> "error", exc |-> e]

Emitted(p) == [kind |-> "record", product |-> p]

\* The body of the item loop of _scrape_amazon, for one item: Skipped (a
\* continue, or a name or url that is empty), Failed (an exception, caught by
\* the loop's handler) or Emitted.
AmazonItem(item, base_url, now) ==
    IF item.name_elem = None THEN Skipped
    ELSE
    LET name    == Strip(item.name_elem[1])
        price   == IF item.price_elem # None
                   THEN ExtractPrice(item.price_elem[1]) ELSE Returned(None)
        token   == IF item.rating_elem # None
                   THEN SplitFirst(item.rating_elem[1]) ELSE Returned(<<"0">>)
        rating  == IF token.kind = "return" THEN PyFloat(token.value) ELSE token
        reviews == IF item.reviews_elem # None
                   THEN PyInt(RemoveChar(item.reviews_elem[1], ","))
                   ELSE Returned(0)
        url     == IF item.url_elem # None /\ item.url_elem[1] # None
                   THEN AmazonOrigin \o item.url_elem[1][1] ELSE base_url
    IN  IF price.kind = "raise" THEN Failed(price.exc)
        ELSE IF rating.kind = "raise" THEN Failed(rating.exc)
        ELSE IF reviews.kind = "raise" THEN Failed(reviews.exc)
        ELSE IF name # <<>> /\ url # <<>>
        THEN Emitted(Product(name, price.value, "Amazon", url, now,
                             rating.value, reviews.value, <<>>))
        ELSE Skipped

ShopOnEbay == <<"s", "h", "o", "p", " ", "o", "n", " ", "e", "b", "a", "y">>

\* The body of the item loop of _scrape_ebay, for one item.
EbayItem(item, base_url, now) ==
    IF item.name_elem = None THEN Skipped
    ELSE
    LET name  == Strip(item.name_elem[1])
        price == IF item.price_elem # None
                 THEN ExtractPrice(item.price_elem[1]) ELSE Returned(None)
        availability == IF item.condition_elem # None
                        THEN Strip(item.condition_elem[1]) ELSE <<>>
        url   == IF item.url_elem # None /\ item.url_elem[1] # None
                 THEN item.url_elem[1][1] ELSE base_url
    IN  IF Lower(name) = ShopOnEbay THEN Skipped
        ELSE IF price.kind = "raise" THEN Failed(price.exc)
        ELSE IF name # <<>> /\ url # <<>>
        THEN Emitted(Product(name, price.value, "eBay", url, now,
                             0, 0, availability))
        ELSE Skipped

\* What one pass of the item loop leaves in products: an exception is caught
\* and the loop continues with the next item.
AfterItem(out, r) ==
    IF r.kind = "record" THEN Append(out, r.product) ELSE out

\* Faulty variant of AmazonLoop: an item's exception ends the loop.
RECURSIVE AmazonLoopAbort(_, _, _, _)
AmazonLoopAbort(items, base_url, now, out) ==
    IF items = <<>> THEN out
    ELSE LET r    == AmazonItem(Head(items), base_url, now)
             next == AfterItem(out, r)
         IN  IF r.kind = "error" THEN out
             ELSE AmazonLoopAbort(Tail(items), base_url, now + Len(next) - Len(out), next)

\* The item loop of _scrape_amazon.  Each Product reads the clock
\* (datetime.now()), which has moved on by a tick at the next reading.
RECURSIVE AmazonLoop(_, _, _, _)
AmazonLoop(items, base_url, now, out) ==
    IF items = <<>> THEN out
    ELSE LET next == AfterItem(out, AmazonItem(Head(items), base_url, now))
         IN  AmazonLoop(Tail(items), base_url, now + Len(next) - Len(out), next)

\* The item loop of _scrape_ebay.
RECURSIVE EbayLoop(_, _, _, _)
EbayLoop(items, base_url, now, out) ==
    IF items = <<>> THEN out
    ELSE LET next == AfterItem(out, EbayItem(Head(items), base_url, now))
         IN  EbayLoop(Tail(items), base_url, now + Len(next) - Len(out), next)

\* WebScraper._scrape_amazon; soup is None or Some(the elements that
\* 'div[data-component-type="s-search-result"]' selects, in document order).
ScrapeAmazon(doc, base_url, now) ==
    IF doc = None THEN Returned(<<>>)
    ELSE Returned(AmazonLoop(doc[1], base_url, now, <<>>))

\* WebScraper._scrape_ebay; soup is None or Some(the elements 'li.s-item'
\* selects, in document order).
ScrapeEbay(doc, base_url, now) ==
    IF doc = None THEN Returned(<<>>)
    ELSE Returned(EbayLoop(doc[1], base_url, now, <<>>))

\* ------------------------------------------------------------------ Fetcher
\* A site's answer to the GET: status "ok" with the document's item
\* elements, or a failure of the request.  fault marks a run in which an
\* exception of the runtime (a MemoryError, say) leaves scrape_site while
\* the document is parsed, outside the parsers' per-item handlers.

FetchFailures == {"connection_error", "timeout", "http_error"}

\* WebScraper.get_soup: every exception of the request is logged and
\* answered with None.
GetSoup(response) ==
    IF response.status = "ok" THEN Some(response.items) ELSE None

\* WebScraper.scrape_site
ScrapeSite(response, url, site, now) ==
    LET doc == GetSoup(response)
    IN  IF doc = None THEN Returned(<<>>)
        ELSE IF response.fault THEN Raised("MemoryError")
        ELSE IF site = "amazon" THEN ScrapeAmazon(doc, url, now)
        ELSE IF site = "ebay" THEN ScrapeEbay(doc, url, now)
        ELSE Returned(<<>>)

\* --------------------------------------------------------------- Aggregator

\* PriceComparisonTool.site_urls, in the dict's insertion order.
SiteOrder == <<"amazon", "ebay">>

SiteTemplate(site) ==
    IF site = "amazon" THEN <<"https://www.amazon.com/s?k=">>
    ELSE <<"https://www.ebay.com/sch/i.html?_nkw=">>

\* urllib.parse.quote_plus, on the characters of the model's queries.
QuoteChar(c) ==
    CASE c = " " -> "+"
      [] c = "&" -> "%26"
      [] c = "/" -> "%2F"
      [] OTHER   -> c

QuotePlus(q) == [i \in 1..Len(q) |-> QuoteChar(q[i])]

SearchUrl(site, q) == SiteTemplate(site) \o QuotePlus(q)

\* Faulty variant of SearchLoop: a site's exception leaves search_products.
RECURSIVE SearchLoopRaising(_, _, _, _, _)
SearchLoopRaising(sites, q, answers, now, found) ==
    IF sites = <<>> THEN Returned(found)
    ELSE LET site == Head(sites)
             r    == ScrapeSite(answers[site], SearchUrl(site, q), site, now)
         IN  IF r.kind = "raise" THEN r
             ELSE SearchLoopRaising(Tail(sites), q, answers, now + Len(r.value),
                                    found \o r.value)

\* Faulty variant of SearchLoop: a site's records go in front of the earlier ones.
RECURSIVE SearchLoopPrepend(_, _, _, _, _)
SearchLoopPrepend(sites, q, answers, now, found) ==
    IF sites = <<>> THEN Returned(found)
    ELSE LET site == Head(sites)
             r    == ScrapeSite(answers[site], SearchUrl(site, q), site, now)
         IN  IF r.kind = "raise"
             THEN SearchLoopPrepend(Tail(sites), q, answers, now, found)
             ELSE SearchLoopPrepend(Tail(sites), q, answers, now + Len(r.value),
                                    r.value \o found)

\* The site loop of search_products: an exception of a site's pipeline is
\* printed and the loop continues with the next site.
RECURSIVE SearchLoop(_, _, _, _, _)
SearchLoop(sites, q, answers, now, found) ==
    IF sites = <<>> THEN Returned(found)
    ELSE LET site == Head(sites)
             r    == ScrapeSite(answers[site], SearchUrl(site, q), site, now)
         IN  IF r.kind = "raise"
             THEN SearchLoop(Tail(sites), q, answers, now, found)
             ELSE SearchLoop(Tail(sites), q, answers, now + Len(r.value),
                             found \o r.value)

\* PriceComparisonTool.search_products
SearchProducts(q, answers, now) == SearchLoop(SiteOrder, q, answers, now, <<>>)

\* ------------------------------------------------------------- Presentation

\* key=lambda x: x.price or float('inf'), as a pair ordered lexicographically:
\* <<0, price>>, or <<1, 0>> for infinity.  A price of 0.0 is falsy.
SortKey(p) == IF p.price = None \/ p.price[1] = 0 THEN <<1, 0>> ELSE <<0, p.price[1]>>

KeyLess(a, b) == a[1] < b[1] \/ (a[1] = b[1] /\ a[2] < b[2])

\* sorted() is stable: x goes before the first element whose key is greater.
InsertByKey(sorted, x) ==
    LET later == {i \in 1..Len(sorted) : KeyLess(SortKey(x), SortKey(sorted[i]))}
        at    == IF later = {} THEN Len(sorted) + 1
                 ELSE CHOOSE i \in later : \A j \in later : i <= j
    IN  SubSeq(sorted, 1, at - 1) \o <<x>> \o SubSeq(sorted, at, Len(sorted))

RECURSIVE SortedByPrice(_)
SortedByPrice(s) ==
    IF s = <<>> THEN <<>>
    ELSE InsertByKey(SortedByPrice(SubSeq(s, 1, Len(s) - 1)), s[Len(s)])

HasPrice(p) == p.price # None

\* valid_products of display_results
ValidProducts(found) == SelectSeq(found, HasPrice)

FirstFive(s) == SubSeq(s, 1, IF Len(s) < 5 THEN Len(s) ELSE 5)

\* PriceComparisonTool.offer_best_deals: the deals shown and the URLs opened
\* in the browser, by the user's two answers.
OfferBestDeals(ranked, see_deals, open_deals) ==
    [deals  |-> IF ranked # <<>> /\ see_deals THEN FirstFive(ranked) ELSE <<>>,
     opened |-> IF ranked # <<>> /\ see_deals /\ open_deals
                THEN [i \in 1..Len(FirstFive(ranked)) |-> ranked[i].url]
                ELSE <<>>]

\* PriceComparisonTool.display_results: the message, the ranked list
\* (sorted_products) and what offer_best_deals did with it.
DisplayResults(found, see_deals, open_deals) ==
    IF found = <<>>
    THEN [message |-> "No products found.", ranked |-> <<>>,
          deals |-> <<>>, opened |-> <<>>]
    ELSE IF ValidProducts(found) = <<>>
    THEN [message |-> "No products found with valid prices.", ranked |-> <<>>,
          deals |-> <<>>, opened |-> <<>>]
    ELSE LET ranked == SortedByPrice(ValidProducts(found))
             offer  == OfferBestDeals(ranked, see_deals, open_deals)
         IN  [message |-> "Search Results:", ranked |-> ranked,
              deals |-> offer.deals, opened |-> offer.opened]

\* -------------------------------------------------------- documents, queries

RatingText == <<"4", ".", "5", " ", "o", "u", "t", " ", "o", "f", " ", "5", " ", "s", "t", "a", "r", "s">>

BlankText == <<" ">>

ReviewsText == <<"1", ",", "2", "3", "4">>

ReviewsLabel == <<"1", "2", " ", "r", "a", "t", "i", "n", "g", "s">>

TvName == <<"T", "V">>

PcName == <<"P", "C">>

EbayFiller == <<"S", "h", "o", "p", " ", "o", "n", " ", "e", "B", "a", "y">>

BrandNew == <<" ", "B", "r", "a", "n", "d", " ", "N", "e", "w", "\n">>

AmazonHref == <<"/dp/1">>

EbayHref == <<"https://www.ebay.com/itm/1">>

AmazonElem(name, price, rating, reviews, url) ==
    [name_elem |-> name, price_elem |-> price, rating_elem |-> rating,
     reviews_elem |-> reviews, url_elem |-> url]

EbayElem(name, price, condition, url) ==
    [name_elem |-> name, price_elem |-> price, condition_elem |-> condition,
     url_elem |-> url]

\* Amazon result elements: one without the name element; one whose name is
\* blank; one whose rating text is blank; one whose link has no href; and
\* every mix of price, rating and review count on a named one.  'h2 a'
\* exists where 'h2 a span' does.
AmazonItems ==
    {AmazonElem(None, None, None, None, None),
     AmazonElem(Some(BlankText), Some(CanonicalPrice), None, None, Some(Some(AmazonHref))),
     AmazonElem(Some(TvName), Some(CanonicalPrice), Some(BlankText), None, Some(Some(AmazonHref))),
     AmazonElem(Some(TvName), Some(CanonicalPrice), None, None, Some(None))}
    \cup {AmazonElem(Some(TvName), p, r, n, Some(Some(AmazonHref))) :
            p \in {None, Some(CanonicalPrice), Some(NotAvailable)},
            r \in {None, Some(RatingText), Some(NotAvailable)},
            n \in {None, Some(ReviewsText), Some(ReviewsLabel)}}

\* eBay result elements: one without the title element; a blank title; the
\* "Shop on eBay" filler; a named one with no link, with a link without
\* href and with an empty href; and every mix of price and condition on a
\* named one.
EbayItems ==
    {EbayElem(None, None, None, None),
     EbayElem(Some(BlankText), Some(CanonicalPrice), None, Some(Some(EbayHref))),
     EbayElem(Some(EbayFiller), Some(CanonicalPrice), None, Some(Some(EbayHref)))}
    \cup {EbayElem(Some(TvName), Some(CanonicalPrice), None, u) :
            u \in {None, Some(None), Some(Some(<<>>))}}
    \cup {EbayElem(Some(TvName), p, c, Some(Some(EbayHref))) :
            p \in {None, Some(CanonicalPrice), Some(NotAvailable)},
            c \in {None, Some(BrandNew)}}

ItemsOf(site) == IF site = "amazon" THEN AmazonItems ELSE EbayItems

\* The elements a search answers with: a priced one, a free one, one whose
\* price text is no number, and one the parser drops.
AmazonSearchItems ==
    {AmazonElem(Some(TvName), Some(CanonicalPrice), Some(RatingText), Some(ReviewsText), Some(Some(AmazonHref))),
     AmazonElem(Some(PcName), Some(ZeroPrice), None, None, Some(Some(AmazonHref))),
     AmazonElem(Some(PcName), Some(NotAvailable), None, None, Some(None)),
     AmazonElem(Some(TvName), Some(CanonicalPrice), Some(NotAvailable), None, Some(Some(AmazonHref)))}

EbaySearchItems ==
    {EbayElem(Some(TvName), Some(CanonicalPrice), Some(BrandNew), Some(Some(EbayHref))),
     EbayElem(Some(PcName), Some(ZeroPrice), None, Some(Some(EbayHref))),
     EbayElem(Some(PcName), Some(NotAvailable), None, None),
     EbayElem(Some(EbayFiller), Some(CanonicalPrice), None, Some(Some(EbayHref)))}

SearchItemsOf(site) == IF site = "amazon" THEN AmazonSearchItems ELSE EbaySearchItems

Sites == {"amazon", "ebay"}

Responses(site) ==
    {[status |-> f, items |-> <<>>, fault |-> FALSE] : f \in FetchFailures}
    \cup {[status |-> "ok", items |-> d, fault |-> b] :
            d \in TextsUpTo(SearchItemsOf(site), MaxSearchItems), b \in BOOLEAN}

Queries == {<<"t", "v">>, <<"4", "k", " ", "t", "v", "&", "p", "c">>}

\* ------------------------------------------------------ Price History Store
\* The products table is the sequence of its rows in rowid order.  A
\* timestamp is the reading of the clock; the text sqlite3 stores for it
\* orders as the readings do.

RowKey(r) == <<r.name, r.website, r.timestamp>>

MaxOf(S) == CHOOSE x \in S : \A y \in S : y <= x

\* The rowid SQLite gives a new row: one more than the largest in the table.
NewRowId(table) ==
    IF table = <<>> THEN 1 ELSE MaxOf({table[i].id : i \in 1..Len(table)}) + 1

RowOf(id, product) ==
    [id |-> id, name |-> product.name, price |-> product.price,
     website |-> product.website, url |-> product.url,
     timestamp |-> product.timestamp, description |-> product.description,
     rating |-> product.rating, num_reviews |-> product.num_reviews,
     availability |-> product.availability]

\* The rows INSERT OR REPLACE leaves of the table: those that do not collide
\* with the new row on UNIQUE(name, website, timestamp).
RECURSIVE WithoutKey(_, _)
WithoutKey(table, key) ==
    IF table = <<>> THEN <<>>
    ELSE (IF RowKey(Head(table)) = key THEN <<>> ELSE <<Head(table)>>)
            \o WithoutKey(Tail(table), key)

\* Faulty variant of SaveProduct: the guard on name and price is left out.
SaveProductUnguarded(table, product) ==
    Append(WithoutKey(table, RowKey(product)), RowOf(NewRowId(table), product))

\* Faulty variant of SaveProduct: a plain INSERT that ignores the uniqueness key.
SaveProductInsert(table, product) ==
    IF product.name = <<>> \/ product.price = None THEN table
    ELSE Append(table, RowOf(NewRowId(table), product))

\* DatabaseManager.save_product: the table after the call.
SaveProduct(table, product) ==
    IF product.name = <<>> \/ product.price = None THEN table
    ELSE Append(WithoutKey(table, RowKey(product)), RowOf(NewRowId(table), product))

\* Faulty variant of LikeMatch: letters are compared with their case.
RECURSIVE LikeMatchCased(_, _)
LikeMatchCased(pattern, text) ==
    IF pattern = <<>> THEN text = <<>>
    ELSE IF Head(pattern) = "%"
    THEN \E k \in 0..Len(text) :
            LikeMatchCased(Tail(pattern), SubSeq(text, k + 1, Len(text)))
    ELSE IF text = <<>> THEN FALSE
    ELSE IF Head(pattern) = "_" THEN LikeMatchCased(Tail(pattern), Tail(text))
    ELSE /\ Head(pattern) = Head(text)
         /\ LikeMatchCased(Tail(pattern), Tail(text))

\* SQLite's LIKE: "%" matches any run of characters, "_" any one character,
\* and any other character itself, ASCII letters without regard to case.
RECURSIVE LikeMatch(_, _)
LikeMatch(pattern, text) ==
    IF pattern = <<>> THEN text = <<>>
    ELSE IF Head(pattern) = "%"
    THEN \E k \in 0..Len(text) :
            LikeMatch(Tail(pattern), SubSeq(text, k + 1, Len(text)))
    ELSE IF text = <<>> THEN FALSE
    ELSE IF Head(pattern) = "_" THEN LikeMatch(Tail(pattern), Tail(text))
    ELSE /\ LowerChar(Head(pattern)) = LowerChar(Head(text))
         /\ LikeMatch(Tail(pattern), Tail(text))

\* SELECT website, price, timestamp, url
HistoryTuple(r) == <<r.website, r.price, r.timestamp, r.url>>

\* DatabaseManager.get_price_history: the lists the query may return.  ORDER
\* BY timestamp DESC leaves the order of rows of one timestamp open.
GetPriceHistory(table, product_name) ==
    LET hit == {i \in 1..Len(table) :
                  /\ LikeMatch(<<"%">> \o product_name \o <<"%">>, table[i].name)
                  /\ table[i].price # None}
        n   == Cardinality(hit)
    IN  {[k \in 1..n |-> HistoryTuple(table[f[k]])] :
            f \in {g \in [1..n -> hit] :
                     /\ \A a \in 1..n : \A b \in 1..n : a # b => g[a] # g[b]
                     /\ \A a \in 1..n : \A b \in a..n :
                           table[g[a]].timestamp >= table[g[b]].timestamp}}

\* The records handed to save_product: one name at both sites and another
\* at one, each at two times and two prices, and records with a blank name
\* or an unknown price.
TvLower == <<"T", "v">>

AbName == <<"a", "b">>

StoredNames == {TvLower, AbName}

SiteUrl(website) == IF website = "Amazon" THEN AmazonOrigin \o AmazonHref ELSE EbayHref

SavedTimes == {StartTime, StartTime + 1}

KnownPrices == {Some(0), Some(5 * Pow10(FracDigits))}

SavedProducts ==
    {Product(nw[1], p, nw[2], SiteUrl(nw[2]), t, 0, 0, <<>>) :
        nw \in {<<TvLower, "Amazon">>, <<TvLower, "eBay">>, <<AbName, "Amazon">>},
        p \in KnownPrices, t \in SavedTimes}
    \cup {Product(<<>>, p, "Amazon", SiteUrl("Amazon"), StartTime, 0, 0, <<>>) :
            p \in KnownPrices \cup {None}}
    \cup {Product(n, None, "Amazon", SiteUrl("Amazon"), StartTime, 0, 0, <<>>) :
            n \in StoredNames}

HistoryQueries == {<<>>, <<"t", "v">>, <<"T">>, <<"_", "b">>, <<"%">>, <<"x">>, <<"a", "%", "b">>}

\* ----------------------------------------------------------------- the menu

\* The loop of main that saves the products with a price; the storage fails
\* at the fail_at-th call of save_product (0: at none), which ends the loop.
RECURSIVE SaveAll(_, _, _)
SaveAll(table, found, fail_at) ==
    IF found = <<>> THEN [table |-> table, failed |-> FALSE]
    ELSE IF Head(found).price = None THEN SaveAll(table, Tail(found), fail_at)
    ELSE IF fail_at = 1 THEN [table |-> table, failed |-> TRUE]
    ELSE SaveAll(SaveProduct(table, Head(found)), Tail(found),
                 IF fail_at = 0 THEN 0 ELSE fail_at - 1)

MenuResponses(site) ==
    {r \in Responses(site) : Len(r.items) <= MaxMenuItems}

\* The query typed at the menu.
MenuQuery == <<"t", "v">>

\* What the two sites may answer to a search made from the menu.
MenuWebs ==
    {[amazon |-> a, ebay |-> e] :
        a \in MenuResponses("amazon"), e \in MenuResponses("ebay")}

\* ------------------------------------------------------- the specifications

priceVars == <<price_text, price_out>>

parseVars == <<site_name, soup, scraped>>

searchVars == <<query, web, products, listing>>

storeVars == <<rows, store_call>>

mainVars == <<main_pc, screen, clock, searches, failure>>

vars == <<priceVars, parseVars, searchVars, storeVars, mainVars>>

IdlePrice == price_text = <<>> /\ price_out = NotCalled

IdleParse == site_name = "amazon" /\ soup = None /\ scraped = NotCalled

IdleSearch ==
    /\ query = <<>>
    /\ web = [amazon |-> [status |-> "timeout", items |-> <<>>, fault |-> FALSE],
              ebay   |-> [status |-> "timeout", items |-> <<>>, fault |-> FALSE]]
    /\ products = NotCalled
    /\ listing = NotCalled

NoCall == [op |-> "none", arg |-> None, out |-> None]

IdleStore == rows = <<>> /\ store_call = NoCall

IdleMain ==
    /\ main_pc = "start"
    /\ screen = ""
    /\ clock = StartTime
    /\ searches = 0
    /\ failure = "none"

\* ---------------------------------------------------------------- SpecPrice

InitPrice ==
    /\ price_text \in PriceTexts
    /\ price_out = NotCalled
    /\ IdleParse /\ IdleSearch /\ IdleStore /\ IdleMain

extract_price ==
    /\ price_out = NotCalled
    /\ price_out' = ExtractPrice(price_text)
    /\ UNCHANGED <<price_text, parseVars, searchVars, storeVars, mainVars>>

NextPrice == extract_price

SpecPrice == InitPrice /\ [][NextPrice]_vars

\* ---------------------------------------------------------------- SpecParse

InitParse ==
    /\ site_name \in Sites
    /\ soup \in {None} \cup {Some(d) : d \in TextsUpTo(ItemsOf(site_name), MaxItems)}
    /\ scraped = NotCalled
    /\ IdlePrice /\ IdleSearch /\ IdleStore /\ IdleMain

scrape_amazon ==
    /\ scraped = NotCalled
    /\ site_name = "amazon"
    /\ scraped' = ScrapeAmazon(soup, SearchUrl("amazon", TvName), StartTime)
    /\ UNCHANGED <<site_name, soup, priceVars, searchVars, storeVars, mainVars>>

scrape_ebay ==
    /\ scraped = NotCalled
    /\ site_name = "ebay"
    /\ scraped' = ScrapeEbay(soup, SearchUrl("ebay", TvName), StartTime)
    /\ UNCHANGED <<site_name, soup, priceVars, searchVars, storeVars, mainVars>>

NextParse == scrape_amazon \/ scrape_ebay

SpecParse == InitParse /\ [][NextParse]_vars

\* --------------------------------------------------------------- SpecSearch

InitSearch ==
    /\ query \in Queries
    /\ web \in {[amazon |-> a, ebay |-> e] :
                    a \in Responses("amazon"), e \in Responses("ebay")}
    /\ products = NotCalled
    /\ listing = NotCalled
    /\ IdlePrice /\ IdleParse /\ IdleStore /\ IdleMain

search_products ==
    /\ products = NotCalled
    /\ products' = SearchProducts(query, web, StartTime)
    /\ UNCHANGED <<query, web, listing, priceVars, parseVars, storeVars, mainVars>>

display_results ==
    /\ products # NotCalled /\ products.kind = "return"
    /\ listing = NotCalled
    /\ \E see_deals \in BOOLEAN, open_deals \in BOOLEAN :
          listing' = DisplayResults(products.value, see_deals, open_deals)
    /\ UNCHANGED <<query, web, products, priceVars, parseVars, storeVars, mainVars>>

NextSearch == search_products \/ display_results

SpecSearch == InitSearch /\ [][NextSearch]_vars

\* ---------------------------------------------------------------- SpecStore
\* Calls of save_product and get_price_history, in any order, on a store
\* that starts empty.

InitStore ==
    /\ rows = <<>>
    /\ store_call = NoCall
    /\ IdlePrice /\ IdleParse /\ IdleSearch /\ IdleMain

save_product ==
    /\ \E product \in SavedProducts :
          /\ NewRowId(SaveProduct(rows, product)) <= MaxRowId + 1
          /\ rows' = SaveProduct(rows, product)
          /\ store_call' = [op |-> "save_product", arg |-> product, out |-> None]
    /\ UNCHANGED <<priceVars, parseVars, searchVars, mainVars>>

get_price_history ==
    /\ \E product_name \in HistoryQueries :
          \E history \in GetPriceHistory(rows, product_name) :
             store_call' = [op |-> "get_price_history", arg |-> product_name,
                            out |-> history]
    /\ UNCHANGED <<rows, priceVars, parseVars, searchVars, mainVars>>

NextStore == save_product \/ get_price_history

SpecStore == InitStore /\ [][NextStore]_vars

\* ----------------------------------------------------------------- SpecMain
\* main: the construction of the tool, then the menu loop.  A pass of the
\* loop is two steps: from the menu's prompt through the handler of the
\* choice to the pause that ends it (time.sleep(2), or the prompt "Press
\* Enter to continue..."), and from the pause back to the menu.  A storage
\* operation (sqlite3.connect, execute, commit) may fail with an exception
\* wherever one is made.

MenuPrompt == "Enter your choice (1-3): "

InitMain ==
    /\ IdleMain
    /\ IdlePrice /\ IdleParse /\ IdleSearch /\ IdleStore

\* tool = PriceComparisonTool(): DatabaseManager.__init__ creates the table,
\* before the loop and outside its try.
start_tool ==
    /\ main_pc = "start"
    /\ \E storage_ok \in BOOLEAN :
          IF storage_ok
          THEN /\ main_pc' = "menu"
               /\ screen' = MenuPrompt
               /\ failure' = "none"
          ELSE /\ main_pc' = "crashed"
               /\ screen' = "Traceback (most recent call last):"
               /\ failure' = "setup_database"
    /\ UNCHANGED <<clock, searches, priceVars, parseVars, searchVars, storeVars>>

\* choice '1' with an empty query, choice '2' with an empty name, and a
\* choice that is none of '1', '2', '3'.
choose_nothing ==
    /\ main_pc = "menu"
    /\ main_pc' = "pause"
    /\ screen' \in {"Please enter a valid product name.",
                    "Invalid choice. Please try again."}
    /\ failure' = "none"
    /\ UNCHANGED <<clock, searches, priceVars, parseVars, searchVars, storeVars>>

\* choice '1': search, display, then save every product with a price; an
\* exception of save_product is caught by the loop's handler.
choose_search ==
    /\ main_pc = "menu"
    /\ searches < MaxMenuSearches
    /\ \E answers \in MenuWebs :
       \E found \in {SearchProducts(MenuQuery, answers, clock).value} :
       \E fail_at \in 0..Len(ValidProducts(found)) :
       \E saved \in {SaveAll(rows, found, fail_at)} :
          /\ rows' = saved.table
          /\ screen' = IF saved.failed THEN "An error occurred: "
                       ELSE DisplayResults(found, FALSE, FALSE).message
          /\ failure' = IF saved.failed THEN "save_product" ELSE "none"
          /\ clock' = clock + Len(found) + 1
    /\ main_pc' = "pause"
    /\ searches' = searches + 1
    /\ UNCHANGED <<store_call, priceVars, parseVars, searchVars>>

\* choice '2': show_price_history, which catches the exception of the query.
choose_history ==
    /\ main_pc = "menu"
    /\ \E product_name \in HistoryQueries \ {<<>>} :
          \/ /\ \E history \in GetPriceHistory(rows, product_name) :
                   screen' = IF history = <<>> THEN "No price history found for "
                             ELSE "Price History for "
             /\ failure' = "none"
          \/ /\ screen' = "Error displaying price history: "
             /\ failure' = "get_price_history"
    /\ main_pc' = "pause"
    /\ UNCHANGED <<clock, searches, priceVars, parseVars, searchVars, storeVars>>

\* The end of a pass: the loop clears the terminal and prints the menu.
next_pass ==
    /\ main_pc = "pause"
    /\ main_pc' = "menu"
    /\ screen' = MenuPrompt
    /\ failure' = "none"
    /\ UNCHANGED <<clock, searches, priceVars, parseVars, searchVars, storeVars>>

\* choice '3'
choose_exit ==
    /\ main_pc = "menu"
    /\ main_pc' = "exited"
    /\ screen' = "Goodbye! Thank you for using Price Comparison Tool!"
    /\ failure' = "none"
    /\ UNCHANGED <<clock, searches, priceVars, parseVars, searchVars, storeVars>>

\* Ctrl-C at a prompt of the loop.
keyboard_interrupt ==
    /\ main_pc \in {"menu", "pause"}
    /\ main_pc' = "interrupted"
    /\ screen' = "Program terminated by user."
    /\ failure' = "none"
    /\ UNCHANGED <<clock, searches, priceVars, parseVars, searchVars, storeVars>>

NextMain ==
    \/ start_tool
    \/ choose_nothing
    \/ choose_search
    \/ choose_history
    \/ next_pass
    \/ choose_exit
    \/ keyboard_interrupt

SpecMain == InitMain /\ [][NextMain]_vars

\* ================================================================== claims

\* ---------------------------------------------------------- C8 (SpecPrice)

C8_NumberChar(c) == c \in AsciiDigits \/ c = "." \/ c = "sup2"

\* The decimal number a text of ASCII digits and one optional point reads as,
\* digit by digit: the digit at i weighs 10 to the number of digits between
\* it and the point.
RECURSIVE C8_Decimal(_, _)
C8_Decimal(t, i) ==
    IF i > Len(t) THEN 0
    ELSE LET dots == DotsAt(t)
             d    == IF dots = {} THEN Len(t) + 1 ELSE CHOOSE k \in dots : TRUE
             w    == IF i < d THEN FracDigits + d - 1 - i ELSE FracDigits - (i - d)
         IN  (IF i = d THEN 0 ELSE DigitVal(t[i]) * Pow10(w)) + C8_Decimal(t, i + 1)

\* C8: _extract_price never raises and returns None or a number >= 0: the
\* number its digits and point read as when they are ASCII digits, at least
\* one, and at most one point; None otherwise (the empty text, a text
\* without a digit such as "N/A", a text with two points); "$1,234.56"
\* gives 1234.56.
C8_ExtractPrice ==
    price_out # NotCalled =>
        LET kept   == SelectSeq(price_text, C8_NumberChar)
            number == /\ Cardinality(DotsAt(kept)) <= 1
                      /\ \E i \in 1..Len(kept) : kept[i] \in AsciiDigits
                      /\ \A i \in 1..Len(kept) : kept[i] # "sup2"
        IN  /\ price_out.kind = "return"
            /\ number => price_out.value = Some(C8_Decimal(kept, 1))
            /\ ~number => price_out.value = None
            /\ price_out.value # None => price_out.value[1] >= 0
            /\ price_text = CanonicalPrice =>
                  price_out.value = Some(123456 * Pow10(FracDigits - 2))
            /\ price_text \in {<<>>, NotAvailable, TwoPoints} => price_out.value = None

C8_Witness ==
    /\ price_text = CanonicalPrice
    /\ price_out = Returned(Some(123456 * Pow10(FracDigits - 2)))

\* ------------------------------------------------------ C6, C9 (SpecParse)

C6_Items == IF soup = None THEN <<>> ELSE soup[1]

C6_Label(site) == IF site = "amazon" THEN "Amazon" ELSE "eBay"

\* The item's processing raises: only Amazon's rating and review count are
\* converted outside _extract_price.
C6_Throws(site, item) ==
    /\ site = "amazon"
    /\ item.name_elem # None
    /\ \/ /\ item.rating_elem # None
          /\ \/ SplitFirst(item.rating_elem[1]).kind = "raise"
             \/ PyFloat(SplitFirst(item.rating_elem[1]).value).kind = "raise"
       \/ /\ item.reviews_elem # None
          /\ PyInt(RemoveChar(item.reviews_elem[1], ",")).kind = "raise"

\* A well-formed item: a name element with a name in it that is not eBay's
\* filler, and a URL that is not empty.
C6_WellFormed(site, item) ==
    /\ item.name_elem # None
    /\ Strip(item.name_elem[1]) # <<>>
    /\ site = "ebay" => /\ Lower(Strip(item.name_elem[1])) # Lower(EbayFiller)
                        /\ item.url_elem # Some(Some(<<>>))

C6_Survivors(site, items) ==
    {i \in 1..Len(items) : C6_WellFormed(site, items[i]) /\ ~C6_Throws(site, items[i])}

\* The index of the k-th survivor.
C6_Nth(site, items, k) ==
    CHOOSE i \in C6_Survivors(site, items) :
        Cardinality({j \in C6_Survivors(site, items) : j < i}) = k - 1

C6_Matches(site, item, rec) ==
    /\ rec.website = C6_Label(site)
    /\ rec.name = Strip(item.name_elem[1])
    /\ (rec.price = None) <=> (item.price_elem \in {None, Some(NotAvailable)})
    /\ site = "amazon" => /\ (rec.rating = 0) <=> (item.rating_elem = None)
                          /\ (rec.num_reviews = 0) <=> (item.reviews_elem = None)
    /\ site = "ebay" => (rec.availability = <<>>) <=> (item.condition_elem = None)

\* C6: a site parser never raises; without item elements it returns the
\* empty list; an item without a name element, and an item whose processing
\* raises, is skipped alone: the result is one record for each other
\* well-formed item, in the order of the items.
C6_ParserSkipsItemAlone ==
    scraped # NotCalled =>
        /\ scraped.kind = "return"
        /\ C6_Items = <<>> => scraped.value = <<>>
        /\ Len(scraped.value) = Cardinality(C6_Survivors(site_name, C6_Items))
        /\ \A k \in 1..Len(scraped.value) :
              C6_Matches(site_name, C6_Items[C6_Nth(site_name, C6_Items, k)],
                         scraped.value[k])

C6_Witness ==
    /\ scraped # NotCalled
    /\ Len(C6_Items) = 2
    /\ C6_Throws(site_name, C6_Items[1])
    /\ C6_Items[2].name_elem # None
    /\ Len(scraped.value) = 1

\* C9: a field that cannot be converted never drops the item: every
\* well-formed item has its record, with an unknown price, a rating of 0.0 or
\* a review count of 0 where the text is no number.
C9_CoercionKeepsItem ==
    scraped # NotCalled =>
        Len(scraped.value) =
            Cardinality({i \in 1..Len(C6_Items) : C6_WellFormed(site_name, C6_Items[i])})

\* ------------------------------------------------- C4, C5, C7 (SpecSearch)

C4_Failed(site) == web[site].status \in FetchFailures \/ web[site].fault

C4_FromSite(site, found) ==
    {i \in 1..Len(found) : found[i].website = C6_Label(site)}

\* C4: search_products never raises; a site whose fetch fails, or whose
\* pipeline raises, contributes no record, and every other site contributes
\* one record for each item its parser keeps.
C4_SiteFailureContained ==
    products # NotCalled =>
        /\ products.kind = "return"
        /\ \A site \in Sites :
              Cardinality(C4_FromSite(site, products.value)) =
                  IF C4_Failed(site) THEN 0
                  ELSE Cardinality(C6_Survivors(site, web[site].items))

C4_Witness ==
    /\ products # NotCalled
    /\ web["amazon"].fault
    /\ web["ebay"].status = "ok"
    /\ C4_FromSite("ebay", products.value) # {}

\* C5: the list of search_products is Amazon's records, then eBay's, each
\* site's in the order of its item elements.
C5_SiteThenDocumentOrder ==
    products # NotCalled /\ products.kind = "return" =>
        LET found == products.value
            na    == Cardinality(C4_FromSite("amazon", found))
        IN  /\ C4_FromSite("amazon", found) = 1..na
            /\ C4_FromSite("ebay", found) = (na + 1)..Len(found)
            /\ \A k \in 1..Len(found) :
                  LET site  == IF k <= na THEN "amazon" ELSE "ebay"
                      items == web[site].items
                      nth   == IF k <= na THEN k ELSE k - na
                  IN  /\ nth <= Cardinality(C6_Survivors(site, items))
                      /\ C6_Matches(site, items[C6_Nth(site, items, nth)], found[k])

C5_Witness ==
    /\ products # NotCalled
    /\ Cardinality(C4_FromSite("amazon", products.value)) = 2
    /\ Cardinality(C4_FromSite("ebay", products.value)) = 2
    /\ products.value[1].name # products.value[2].name
    /\ products.value[3].name # products.value[4].name

\* C7: the list display_results ranks holds no record without a price, and
\* its prices never decrease.
C7_RankedNonDecreasing ==
    listing # NotCalled =>
        /\ \A i \in 1..Len(listing.ranked) : listing.ranked[i].price # None
        /\ \A i \in 1..Len(listing.ranked) : \A j \in i..Len(listing.ranked) :
              listing.ranked[i].price[1] <= listing.ranked[j].price[1]

\* ------------------------------------------------- C1, C2, C3 (SpecStore)

C1_Invalid(product) == product.name = <<>> \/ product.price = None

\* C1: every row of the table has a name and a price, and a save_product
\* whose record has no name or no price leaves the table as it was.
C1_OnlyValidRecordsStored ==
    /\ [](\A i \in 1..Len(rows) : rows[i].name # <<>> /\ rows[i].price # None)
    /\ [][store_call'.op = "save_product" /\ C1_Invalid(store_call'.arg)
            => rows' = rows]_vars

C1_Witness ==
    /\ store_call.op = "save_product"
    /\ store_call.arg.name # <<>>
    /\ store_call.arg.price = None
    /\ Len(rows) = 2

C2_Fields(r) ==
    <<r.price, r.url, r.description, r.rating, r.num_reviews, r.availability>>

C2_Others(table, key) == {table[i] : i \in {j \in 1..Len(table) : RowKey(table[j]) # key}}

\* C2: the table holds at most one row for a key (name, website,
\* timestamp); after a save that row has the saved record's fields, and the
\* rows of every other key are as they were.
C2_OneRowPerKeyLatestWins ==
    /\ [](\A i \in 1..Len(rows) : \A j \in 1..Len(rows) :
            RowKey(rows[i]) = RowKey(rows[j]) => i = j)
    /\ [][store_call'.op = "save_product" /\ ~C1_Invalid(store_call'.arg) =>
            /\ \E i \in 1..Len(rows') :
                  /\ RowKey(rows'[i]) = RowKey(store_call'.arg)
                  /\ C2_Fields(rows'[i]) = C2_Fields(store_call'.arg)
            /\ C2_Others(rows', RowKey(store_call'.arg))
                  = C2_Others(rows, RowKey(store_call'.arg))]_vars

C2_Witness ==
    /\ store_call.op = "save_product"
    /\ Len(rows) = 1
    /\ rows[1].id = 2
    /\ C2_Fields(rows[1]) = C2_Fields(store_call.arg)

\* name contains q, character for character.
C3_Contains(name, q) ==
    \E k \in 0..(Len(name) - Len(q)) : SubSeq(name, k + 1, k + Len(q)) = q

\* name matches the LIKE pattern %q%: the characters of q other than "%" lie
\* in name in their order, neighbours in q side by side in name, each on a
\* character equal to it but for the case of ASCII letters, "_" on any.
C3_Like(name, q) ==
    LET at == {k \in 1..Len(q) : q[k] # "%"}
    IN  \E pos \in [at -> 1..Len(name)] :
           /\ \A k \in at : q[k] = "_" \/ LowerChar(q[k]) = LowerChar(name[pos[k]])
           /\ \A k \in at : \A l \in at :
                 /\ k < l => pos[k] < pos[l]
                 /\ l = k + 1 => pos[l] = pos[k] + 1

C3_Times(seq, t) == Cardinality({i \in 1..Len(seq) : seq[i] = t})

\* out lists the rows at the indices wanted, each once, newest first.
C3_Lists(out, wanted) ==
    /\ Len(out) = Cardinality(wanted)
    /\ \A i \in wanted :
          C3_Times(out, <<rows[i].website, rows[i].price, rows[i].timestamp, rows[i].url>>)
            = Cardinality({j \in wanted :
                 <<rows[j].website, rows[j].price, rows[j].timestamp, rows[j].url>>
                   = <<rows[i].website, rows[i].price, rows[i].timestamp, rows[i].url>>})
    /\ \A a \in 1..Len(out) : \A b \in a..Len(out) : out[a][3] >= out[b][3]

\* C3 as claimed: get_price_history(q) returns the rows with a price whose
\* name contains q as a case-sensitive substring, newest first.
C3_LiteralSubstring ==
    store_call.op = "get_price_history" =>
        C3_Lists(store_call.out,
                 {i \in 1..Len(rows) :
                    C3_Contains(rows[i].name, store_call.arg) /\ rows[i].price # None})

\* C3 as amended: get_price_history(q) returns the rows with a price whose
\* name matches the LIKE pattern %q%, newest first.
C3_LikePattern ==
    store_call.op = "get_price_history" =>
        C3_Lists(store_call.out,
                 {i \in 1..Len(rows) :
                    C3_Like(rows[i].name, store_call.arg) /\ rows[i].price # None})

C3_Witness ==
    /\ store_call.op = "get_price_history"
    /\ store_call.arg = <<"t", "v">>
    /\ Len(store_call.out) = 2
    /\ store_call.out[1][3] > store_call.out[2][3]

\* ----------------------------------------------------------- C10 (SpecMain)

\* C10: a storage failure never ends the process: it is shown as a message
\* and the menu loop goes on, which ends by exit or interrupt alone.
C10_StorageFailureReturnsToMenu ==
    /\ main_pc \in {"start", "menu", "pause", "exited", "interrupted"}
    /\ failure # "none" =>
          /\ main_pc = "pause"
          /\ screen \in {"An error occurred: ", "Error displaying price history: "}

====
